---------------------------- MODULE Spec2Model ----------------------------
(***************************************************************************)
(* Model of the WFS bulk downloader (WFS_DOWNLOADER/wfs_downloader.py) and *)
(* of its offline verifier (check_downloads.py).                           *)
(*                                                                         *)
(* Strings are sequences of one-character strings, so that the character   *)
(* level operations of the code (re.sub, str.strip, str.replace,           *)
(* os.path.join) are computed the way the code computes them.              *)
(***************************************************************************)
EXTENDS Integers, Sequences, FiniteSets, TLC

(***************************************************************************)
(* Bounds of the model.                                                    *)
(***************************************************************************)
\* longest CSV (number of data rows) the orchestrator is run on
MaxRows == 2
\* largest worker-pool size the orchestrator is run with
MaxWorkers == 2
\* longest string handed to the sanitizers
MaxLen == 3
\* longest CSV (number of data rows) the verifier is run on
MaxVerRows == 2

(***************************************************************************)
(* Characters and strings.                                                 *)
(***************************************************************************)
\* the character class of the regular expression [\\/*?:"<>|]
InvalidChars == {"\\", "/", "*", "?", ":", "\"", "<", ">", "|"}

\* characters str.strip() removes from both ends
Whitespace == {" ", "\t"}

\* code points of the characters the verifier's names are built from
CodePoint(c) ==
  CASE c = "\t" -> 9
    [] c = " "  -> 32
    [] c = ":"  -> 58
    [] c = "?"  -> 63
    [] c = "A"  -> 65
    [] c = "B"  -> 66
    [] OTHER    -> 0

RECURSIVE re_sub_invalid(_)
\* re.sub(r'[\\/*?:"<>|]', "", name): every character of the class is dropped
re_sub_invalid(name) ==
  IF name = <<>> THEN <<>>
  ELSE IF Head(name) \in InvalidChars THEN re_sub_invalid(Tail(name))
       ELSE <<Head(name)>> \o re_sub_invalid(Tail(name))

RECURSIVE lstrip(_)
lstrip(s) ==
  IF s # <<>> /\ Head(s) \in Whitespace THEN lstrip(Tail(s)) ELSE s

RECURSIVE rstrip(_)
rstrip(s) ==
  IF s # <<>> /\ s[Len(s)] \in Whitespace
  THEN rstrip(SubSeq(s, 1, Len(s) - 1)) ELSE s

\* str.strip()
strip(s) == rstrip(lstrip(s))

\* a plausible slip: trimming before the characters are removed
sanitize_strip_first(name) == re_sub_invalid(strip(name))

\* sanitize_filename of wfs_downloader.py
sanitize_filename(name) == strip(re_sub_invalid(name))

\* sanitize_filename of check_downloads.py
check_sanitize_filename(name) == strip(re_sub_invalid(name))

\* str.replace(old, new) for one-character old and new
replace(s, old, new) == [i \in 1..Len(s) |-> IF s[i] = old THEN new ELSE s[i]]

\* os.path.join(a, b) for a relative b
path_join(a, b) ==
  IF a = <<>> THEN b
  ELSE IF a[Len(a)] = "/" THEN a \o b
  ELSE a \o <<"/">> \o b

RECURSIVE NormPath(_)
\* the filesystem object a path names: trailing separators do not matter
NormPath(p) ==
  IF p # <<>> /\ p[Len(p)] = "/" THEN NormPath(SubSeq(p, 1, Len(p) - 1)) ELSE p

\* the directories os.makedirs(p) has to find or create: p and all its parents
PathAndParents(p) ==
  {NormPath(p)} \cup {SubSeq(p, 1, i - 1) : i \in {j \in 2..Len(p) : p[j] = "/"}}

\* the directory a file path lies in
ParentDir(p) ==
  LET seps == {j \in 1..Len(p) : p[j] = "/"}
  IN IF seps = {} THEN <<>>
     ELSE SubSeq(p, 1, (CHOOSE j \in seps : \A k \in seps : k <= j) - 1)

\* all strings over an alphabet of length at most n
StringsUpTo(alphabet, n) == UNION {[1..k -> alphabet] : k \in 0..n}

(***************************************************************************)
(* Configuration (module level constants of the two scripts).              *)
(***************************************************************************)
LAYERS == << <<"m","s",":","b","u","d","y","n","k","i">>,
             <<"m","s",":","d","z","i","a","l","k","i">> >>

OUTPUT_DIR == <<"w","f","s","_","d","a","t","a">>

BASE_DIR == <<"w","f","s","_","d","a","t","a">>

EXPECTED_FILES == << <<"m","s","_","b","u","d","y","n","k","i",".","g","m","l">>,
                     <<"m","s","_","d","z","i","a","l","k","i",".","g","m","l">> >>

GmlExt == <<".","g","m","l">>


(***************************************************************************)
(* State.                                                                  *)
(***************************************************************************)
VARIABLES
  \* --- the CSV file both programs read ---
  csv,                \* data rows, each [organ |-> field, url |-> field]
  fieldnames,         \* which of the two required header columns are present
  \* --- process_csv_parallel (main thread) ---
  max_workers,        \* size of the ThreadPoolExecutor
  pc,                 \* position of the main thread
  next_row,           \* index of the row the reader yields next
  futures,            \* the list `futures`: row indices in submission order
  work_queue,         \* work items the executor has not started yet
  running,            \* rows whose process_wfs_service call is executing
  finished,           \* rows whose future is done
  raised,             \* rows whose future holds an exception
  \* --- process_wfs_service / download_wfs_data (worker threads) ---
  layer_idx,          \* position of the `for layer in LAYERS` loop, per row
  dpc,                \* position inside download_wfs_data, per row
  response,           \* what requests.get gave the current download, per row
  outcome,            \* outcome of each (row, layer) download
  calls,              \* number of download_wfs_data calls per (row, layer)
  wrote,              \* (row, layer) downloads that created or truncated their file
  \* --- the filesystem ---
  dirs,               \* existing directories (normalized paths)
  files,              \* existing regular files: path -> content
  \* --- check_downloads ---
  v_pc,
  missing_directories,
  missing_files_report,
  \* --- sanitize_filename called on its own ---
  san_orig, san_arg, dl_out, ck_out, dl_done, ck_done, san_round

fsVars == <<dirs, files>>
csvVars == <<csv, fieldnames>>
mainVars == <<max_workers, pc, next_row, futures, work_queue>>
poolVars == <<running, finished, raised>>
taskVars == <<layer_idx, dpc, response, outcome, calls, wrote>>
verVars == <<v_pc, missing_directories, missing_files_report>>
sanVars == <<san_orig, san_arg, dl_out, ck_out, dl_done, ck_done, san_round>>
vars == <<csvVars, mainVars, poolVars, taskVars, fsVars, verVars, sanVars>>

Rows == 1..MaxRows
LayerIdx == 1..Len(LAYERS)

\* the two header columns the scripts look up by substring
UrlHeader == "Usluga pobierania"
OrganHeader == "Organ zglaszajacy"

\* raw field values a CSV row can carry
OrganFields == { <<"A">>, <<"A", ":">>, <<"?">>, <<" ">> }
UrlFields == { <<"u">>, <<>> }
RowValues == [organ : OrganFields, url : UrlFields]
CsvFiles == UNION {[1..n -> RowValues] : n \in 0..MaxRows}

\* response bodies a server can send (a body is a sequence of tokens)
Bodies == { <<"x">>, <<"LayerNotDefined", "y">> }
NoResponse == [kind |-> "none", status |-> 0, content |-> <<>>]
Responses ==
  { [kind |-> "Timeout", status |-> 0, content |-> <<>>],
    [kind |-> "ConnectionError", status |-> 0, content |-> <<>>] }
  \cup [kind : {"Response"}, status : {200, 404}, content : Bodies]

NoFiles == [p \in {} |-> <<>>]

\* the idle values of the parts of the state a specification does not use
OrchestratorIdle ==
  /\ max_workers = 1 /\ pc = "off" /\ next_row = 1
  /\ futures = <<>> /\ work_queue = <<>>
  /\ running = {} /\ finished = {} /\ raised = {}
  /\ layer_idx = [r \in Rows |-> 0]
  /\ dpc = [r \in Rows |-> "idle"]
  /\ response = [r \in Rows |-> NoResponse]
  /\ outcome = [r \in Rows |-> [l \in LayerIdx |-> "none"]]
  /\ calls = [r \in Rows |-> [l \in LayerIdx |-> 0]]
  /\ wrote = {}

VerifierIdle ==
  /\ v_pc = "off" /\ missing_directories = <<>> /\ missing_files_report = NoFiles

SanitizerIdle ==
  /\ san_orig = <<>> /\ san_arg = <<>> /\ dl_out = <<>> /\ ck_out = <<>>
  /\ dl_done = FALSE /\ ck_done = FALSE /\ san_round = 0

(***************************************************************************)
(* download_wfs_data and process_wfs_service.                              *)
(***************************************************************************)
\* `"LayerNotDefined" in e.response.text`
HasLayerNotDefined(content) ==
  \E i \in 1..Len(content) : content[i] = "LayerNotDefined"

\* response.raise_for_status(): HTTPError for 4xx and 5xx
RaisesForStatus(resp) == resp.status >= 400 /\ resp.status < 600

\* a handler list without the final `except Exception`
handler_no_broad(exc, resp) ==
  CASE exc = "Timeout" -> "Timeout"
    [] exc = "RequestException" ->
         IF resp.kind = "Response" /\ HasLayerNotDefined(resp.content)
         THEN "LayerNotDefined" ELSE "HttpError"
    [] OTHER -> "Raised"

\* the except clauses of download_wfs_data: the outcome an exception ends in
\* ("Raised" would be an exception that leaves the function)
handler(exc, resp) ==
  CASE exc = "Timeout" -> "Timeout"
    [] exc = "RequestException" ->
         IF resp.kind = "Response" /\ HasLayerNotDefined(resp.content)
         THEN "LayerNotDefined" ELSE "HttpError"
    [] OTHER -> "UnexpectedError"

\* the row's fields as process_csv_parallel passes them on
organ_name(r) == strip(csv[r].organ)
wfs_url(r) == strip(csv[r].url)

\* process_wfs_service: the directory of one organization
area_specific_dir(r) == path_join(OUTPUT_DIR, sanitize_filename(organ_name(r)))

\* download_wfs_data: the file of one layer
sanitized_layer_name(l) == replace(LAYERS[l], ":", "_")
output_filename(r, l) ==
  path_join(area_specific_dir(r), sanitized_layer_name(l) \o GmlExt)

\* the file a (row, layer) download names
TargetFile(r, l) == NormPath(output_filename(r, l))

\* a binary write of data at offset 0 of a file holding content
WriteAt(content, data) ==
  data \o SubSeq(content, Len(data) + 1, Len(content))

\* download_wfs_data returns (or raises): the loop of process_wfs_service goes on
EndDownload(r, out) ==
  /\ outcome' = [outcome EXCEPT ![r][layer_idx[r]] = out]
  /\ IF out = "Raised"
     THEN /\ raised' = raised \cup {r}
          /\ finished' = finished \cup {r}
          /\ running' = running \ {r}
          /\ dpc' = [dpc EXCEPT ![r] = "idle"]
          /\ UNCHANGED <<layer_idx, calls>>
     ELSE IF layer_idx[r] < Len(LAYERS)
     THEN /\ layer_idx' = [layer_idx EXCEPT ![r] = @ + 1]
          /\ calls' = [calls EXCEPT ![r][layer_idx[r] + 1] = @ + 1]
          /\ dpc' = [dpc EXCEPT ![r] = "get"]
          /\ UNCHANGED <<running, finished, raised>>
     ELSE /\ finished' = finished \cup {r}
          /\ running' = running \ {r}
          /\ dpc' = [dpc EXCEPT ![r] = "idle"]
          /\ UNCHANGED <<layer_idx, calls, raised>>

\* a pool that starts work items without regard to its size
pool_unbounded == TRUE

\* ThreadPoolExecutor(max_workers=MAX_WORKERS): a work item starts only on a
\* free worker thread
pool_has_free_worker == Cardinality(running) < max_workers

\* a worker thread takes the oldest work item and calls process_wfs_service
StartTask(r) ==
  /\ pc \in {"submit", "wait"}
  /\ work_queue # <<>> /\ Head(work_queue) = r
  /\ pool_has_free_worker
  /\ work_queue' = Tail(work_queue)
  /\ IF wfs_url(r) = <<>> \/ organ_name(r) = <<>>
     THEN /\ finished' = finished \cup {r}
          /\ UNCHANGED <<running, layer_idx, dpc, calls>>
     ELSE /\ running' = running \cup {r}
          /\ layer_idx' = [layer_idx EXCEPT ![r] = 1]
          /\ calls' = [calls EXCEPT ![r][1] = @ + 1]
          /\ dpc' = [dpc EXCEPT ![r] = "get"]
          /\ UNCHANGED finished
  /\ UNCHANGED <<csvVars, max_workers, pc, next_row, futures, raised,
                 response, outcome, wrote, fsVars, verVars, sanVars>>

\* requests.get(...) and response.raise_for_status()
Get(r) ==
  /\ r \in running /\ dpc[r] = "get"
  /\ \E resp \in Responses :
       /\ response' = [response EXCEPT ![r] = resp]
       /\ IF resp.kind = "Timeout"
          THEN EndDownload(r, handler("Timeout", resp))
          ELSE IF resp.kind = "ConnectionError" \/ RaisesForStatus(resp)
          THEN EndDownload(r, handler("RequestException", resp))
          ELSE /\ dpc' = [dpc EXCEPT ![r] = "open"]
               /\ UNCHANGED <<outcome, layer_idx, calls, poolVars>>
  /\ UNCHANGED <<csvVars, mainVars, wrote, fsVars, verVars, sanVars>>

\* os.makedirs(output_dir, exist_ok=True) and open(output_filename, "wb")
MakedirsOpen(r) ==
  /\ r \in running /\ dpc[r] = "open"
  /\ LET l == layer_idx[r]
         d == area_specific_dir(r)
         f == TargetFile(r, l)
         made == dirs \cup PathAndParents(d)
     IN \E os \in {"ok", "makedirs fails", "open fails"} :
          IF os = "makedirs fails" \/ PathAndParents(d) \cap DOMAIN files # {}
          THEN /\ EndDownload(r, handler("OSError", response[r]))
               /\ UNCHANGED <<wrote, fsVars>>
          ELSE IF os = "open fails" \/ f \in made
          THEN /\ dirs' = made
               /\ EndDownload(r, handler("OSError", response[r]))
               /\ UNCHANGED <<wrote, files>>
          ELSE /\ dirs' = made
               /\ files' = [p \in DOMAIN files \cup {f} |->
                              IF p = f THEN <<>> ELSE files[p]]
               /\ wrote' = wrote \cup {<<r, l>>}
               /\ dpc' = [dpc EXCEPT ![r] = "write"]
               /\ UNCHANGED <<outcome, layer_idx, calls, poolVars>>
  /\ UNCHANGED <<csvVars, mainVars, response, verVars, sanVars>>

\* f.write(response.content) and the close of the with block; a failing write
\* leaves the first k tokens of the body in the file
Write(r) ==
  /\ r \in running /\ dpc[r] = "write"
  /\ LET l == layer_idx[r]
         f == TargetFile(r, l)
         body == response[r].content
     IN \E k \in 0..Len(body) :
          /\ files' = [files EXCEPT ![f] = WriteAt(@, SubSeq(body, 1, k))]
          /\ IF k = Len(body)
             THEN EndDownload(r, "Success")
             ELSE EndDownload(r, handler("OSError", response[r]))
  /\ UNCHANGED <<csvVars, mainVars, response, wrote, dirs, verVars, sanVars>>

(***************************************************************************)
(* process_csv_parallel.                                                   *)
(***************************************************************************)
\* a submission of one work item per layer
submit_per_layer(i) == [l \in LayerIdx |-> i]

\* executor.submit(process_wfs_service, organ_name, wfs_url): one work item
\* per row
submitted_items(i) == <<i>>

\* open the CSV, read the header, look the two columns up
OpenCsv ==
  /\ pc = "start"
  /\ pc' = IF UrlHeader \notin fieldnames \/ OrganHeader \notin fieldnames
           THEN "done" ELSE "submit"
  /\ UNCHANGED <<csvVars, max_workers, next_row, futures, work_queue,
                 poolVars, taskVars, fsVars, verVars, sanVars>>

\* one iteration of `for row in reader`
ReadRow ==
  /\ pc = "submit" /\ next_row <= Len(csv)
  /\ next_row' = next_row + 1
  /\ IF wfs_url(next_row) # <<>> /\ organ_name(next_row) # <<>>
     THEN /\ futures' = futures \o submitted_items(next_row)
          /\ work_queue' = work_queue \o submitted_items(next_row)
     ELSE UNCHANGED <<futures, work_queue>>
  /\ UNCHANGED <<csvVars, max_workers, pc, poolVars, taskVars, fsVars,
                 verVars, sanVars>>

\* the reader is exhausted: the main thread enters the as_completed loop
EndOfRows ==
  /\ pc = "submit" /\ next_row > Len(csv)
  /\ pc' = "wait"
  /\ UNCHANGED <<csvVars, max_workers, next_row, futures, work_queue,
                 poolVars, taskVars, fsVars, verVars, sanVars>>

\* as_completed has yielded every future and the executor's with block has
\* shut the pool down: process_csv_parallel returns
JoinAll ==
  /\ pc = "wait"
  /\ \A i \in 1..Len(futures) : futures[i] \in finished
  /\ pc' = "done"
  /\ UNCHANGED <<csvVars, max_workers, next_row, futures, work_queue,
                 poolVars, taskVars, fsVars, verVars, sanVars>>

Init ==
  /\ csv \in CsvFiles
  /\ fieldnames \in SUBSET {UrlHeader, OrganHeader}
  /\ max_workers \in 1..MaxWorkers
  /\ pc = "start" /\ next_row = 1
  /\ futures = <<>> /\ work_queue = <<>>
  /\ running = {} /\ finished = {} /\ raised = {}
  /\ layer_idx = [r \in Rows |-> 0]
  /\ dpc = [r \in Rows |-> "idle"]
  /\ response = [r \in Rows |-> NoResponse]
  /\ outcome = [r \in Rows |-> [l \in LayerIdx |-> "none"]]
  /\ calls = [r \in Rows |-> [l \in LayerIdx |-> 0]]
  /\ wrote = {}
  /\ dirs = {} /\ files = NoFiles
  /\ VerifierIdle /\ SanitizerIdle

Next ==
  \/ OpenCsv
  \/ ReadRow
  \/ EndOfRows
  \/ JoinAll
  \/ \E r \in Rows : StartTask(r)
  \/ \E r \in Rows : Get(r)
  \/ \E r \in Rows : MakedirsOpen(r)
  \/ \E r \in Rows : Write(r)

Spec == Init /\ [][Next]_vars


(***************************************************************************)
(* check_downloads.                                                        *)
(***************************************************************************)
\* os.path.exists taken for os.path.isdir: a regular file passes as a directory
isdir_as_exists(p) == NormPath(p) \in dirs \cup DOMAIN files

os_path_isdir(p) == NormPath(p) \in dirs

os_path_exists(p) == NormPath(p) \in dirs \cup DOMAIN files

RECURSIVE StrLess(_, _)
\* a < b for Python strings: lexicographic by code point
StrLess(a, b) ==
  IF b = <<>> THEN FALSE
  ELSE IF a = <<>> THEN TRUE
  ELSE IF Head(a) # Head(b) THEN CodePoint(Head(a)) < CodePoint(Head(b))
  ELSE StrLess(Tail(a), Tail(b))

RECURSIVE sorted(_)
\* sorted(a set of strings)
sorted(S) ==
  IF S = {} THEN <<>>
  ELSE LET m == CHOOSE x \in S : \A y \in S \ {x} : StrLess(x, y)
       IN <<m>> \o sorted(S \ {m})

\* {row[organ_header].strip() for row in reader if row[organ_header].strip()}
expected_organs == {strip(csv[i].organ) : i \in 1..Len(csv)} \ {<<>>}

organ_dir(name) == path_join(BASE_DIR, check_sanitize_filename(name))

\* the inner loop over EXPECTED_FILES
missing_files(name) ==
  SelectSeq(EXPECTED_FILES,
            LAMBDA file : ~os_path_exists(path_join(organ_dir(name), file)))

\* the whole of check_downloads: it reads the CSV and the directory tree and
\* builds the two parts of the report
check_downloads ==
  /\ v_pc = "start"
  /\ v_pc' = "done"
  /\ IF OrganHeader \notin fieldnames
     THEN UNCHANGED <<missing_directories, missing_files_report>>
     ELSE LET present == {n \in expected_organs : os_path_isdir(organ_dir(n))}
              lacking == {n \in present : missing_files(n) # <<>>}
          IN /\ missing_directories' =
                  SelectSeq(sorted(expected_organs),
                            LAMBDA n : ~os_path_isdir(organ_dir(n)))
             /\ missing_files_report' = [n \in lacking |-> missing_files(n)]
  /\ UNCHANGED <<csvVars, mainVars, poolVars, taskVars, fsVars, sanVars>>

\* organization fields of the verifier's CSV
VerOrganFields == { <<"A">>, <<"A", ":">>, <<"B">>, <<"?">>, <<" ">> }
VerCsvFiles ==
  UNION {[1..n -> [organ : VerOrganFields, url : {<<"u">>}]] : n \in 0..MaxVerRows}

\* directory trees the verifier is run against
DirA == path_join(BASE_DIR, <<"A">>)
DirB == path_join(BASE_DIR, <<"B">>)
TreeDirs == {BASE_DIR, DirA, DirB}
TreeFiles ==
  {path_join(d, EXPECTED_FILES[i]) : d \in {BASE_DIR, DirA}, i \in 1..2}
  \cup {path_join(DirB, EXPECTED_FILES[1]), DirA}

\* a tree is well formed: parents exist, and no path is both file and directory
WellFormedTree(ds, fs) ==
  /\ \A d \in ds : d = BASE_DIR \/ BASE_DIR \in ds
  /\ \A f \in fs : ParentDir(f) \in ds /\ f \notin ds

InitVerify ==
  /\ csv \in VerCsvFiles
  /\ fieldnames \in SUBSET {OrganHeader}
  /\ \E ds \in SUBSET TreeDirs, fs \in SUBSET TreeFiles :
       /\ WellFormedTree(ds, fs)
       /\ dirs = ds
       /\ files = [f \in fs |-> <<"x">>]
  /\ v_pc = "start" /\ missing_directories = <<>> /\ missing_files_report = NoFiles
  /\ OrchestratorIdle /\ SanitizerIdle

NextVerify == check_downloads

SpecVerify == InitVerify /\ [][NextVerify]_vars

(***************************************************************************)
(* The two sanitize_filename functions, called on arbitrary strings.       *)
(***************************************************************************)
SanAlphabet == InvalidChars \cup Whitespace \cup {"a"}

\* the downloader's sanitize_filename is called on the current argument
DlSanitize ==
  /\ ~dl_done
  /\ dl_out' = sanitize_filename(san_arg)
  /\ dl_done' = TRUE
  /\ UNCHANGED <<csvVars, mainVars, poolVars, taskVars, fsVars, verVars,
                 san_orig, san_arg, ck_out, ck_done, san_round>>

\* the verifier's sanitize_filename is called on the current argument
CkSanitize ==
  /\ ~ck_done
  /\ ck_out' = check_sanitize_filename(san_arg)
  /\ ck_done' = TRUE
  /\ UNCHANGED <<csvVars, mainVars, poolVars, taskVars, fsVars, verVars,
                 san_orig, san_arg, dl_out, dl_done, san_round>>

\* the downloader's result becomes the argument of a second round
Reapply ==
  /\ dl_done /\ ck_done /\ san_round = 0
  /\ san_arg' = dl_out
  /\ san_round' = 1
  /\ dl_done' = FALSE /\ ck_done' = FALSE
  /\ UNCHANGED <<csvVars, mainVars, poolVars, taskVars, fsVars, verVars,
                 san_orig, dl_out, ck_out>>

InitSan ==
  /\ san_orig \in StringsUpTo(SanAlphabet, MaxLen)
  /\ san_arg = san_orig
  /\ dl_out = <<>> /\ ck_out = <<>>
  /\ dl_done = FALSE /\ ck_done = FALSE /\ san_round = 0
  /\ csv = <<>> /\ fieldnames = {}
  /\ dirs = {} /\ files = NoFiles
  /\ OrchestratorIdle /\ VerifierIdle

NextSan == DlSanitize \/ CkSanitize \/ Reapply

SpecSan == InitSan /\ [][NextSan]_vars


(***************************************************************************)
(* Properties.                                                             *)
(***************************************************************************)
Terminal == {"Success", "Timeout", "HttpError", "LayerNotDefined", "UnexpectedError"}
Failures == Terminal \ {"Success"}

HeaderValid == UrlHeader \in fieldnames /\ OrganHeader \in fieldnames

\* a CSV row with organization and URL both non-empty after trimming
ValidRow(i) ==
  /\ i \in 1..Len(csv)
  /\ strip(csv[i].organ) # <<>>
  /\ strip(csv[i].url) # <<>>

\* the (row, layer) downloads in progress: called and not yet returned
InProgress == {<<r, l>> \in Rows \X LayerIdx : calls[r][l] > 0 /\ outcome[r][l] = "none"}

\* the download of row r that ended last, or is going on
LastLayer(r) == IF dpc[r] = "get" THEN layer_idx[r] - 1 ELSE layer_idx[r]

C2_FailureContainment ==
  /\ raised = {}
  /\ \A r \in finished : ValidRow(r) => \A l \in LayerIdx : outcome[r][l] \in Terminal
  /\ pc = "done" =>
       /\ work_queue = <<>> /\ running = {}
       /\ \A i \in 1..Len(futures) : futures[i] \in finished

\* a file write failed in the first layer of row 1, and all the other
\* downloads of the run still succeeded before the run returned
C2_Witness ==
  /\ pc = "done" /\ Len(futures) = 2
  /\ outcome[1][1] = "UnexpectedError" /\ <<1, 1>> \in wrote
  /\ outcome[1][2] = "Success"
  /\ outcome[2][1] = "Success" /\ outcome[2][2] = "Success"

\* C3: a download that ended in a failure has not created or truncated its
\* target file.
C3_NoFileOnFailure ==
  \A r \in Rows, l \in LayerIdx :
    outcome[r][l] \in Failures => <<r, l>> \notin wrote

\* C4: a download whose response body contains "LayerNotDefined", whatever the
\* status code, ends as LayerNotDefined and does not get to writing a file.
C4_LayerNotDefinedAnyStatus ==
  \A r \in Rows :
    (response[r].kind = "Response" /\ HasLayerNotDefined(response[r].content)) =>
      /\ dpc[r] \notin {"open", "write"}
      /\ outcome[r][LastLayer(r)] = "LayerNotDefined"
      /\ <<r, LastLayer(r)>> \notin wrote

RECURSIVE CanonPath(_)
\* the path with runs of separators collapsed and no trailing separator: the
\* operating system takes a//b and a/b for the same file
CanonPath(p) ==
  IF p = <<>> THEN <<>>
  ELSE IF Head(p) = "/" /\ (Len(p) = 1 \/ p[2] = "/") THEN CanonPath(Tail(p))
  ELSE <<Head(p)>> \o CanonPath(Tail(p))

\* C5: at the moment a download ends in Success, the file
\* <output_dir>/<sanitized organization>/<layer with ':' as '_'>.gml exists
\* and holds exactly the response body.
C5_SuccessLeavesBody ==
  [][\A r \in Rows, l \in LayerIdx :
       (outcome[r][l] = "none" /\ outcome'[r][l] = "Success") =>
         LET f == CanonPath(
                    OUTPUT_DIR \o <<"/">> \o sanitize_filename(strip(csv[r].organ))
                    \o <<"/">> \o replace(LAYERS[l], ":", "_") \o GmlExt)
         IN /\ f \in DOMAIN files'
            /\ files'[f] = response[r].content]_vars

\* the number of valid rows the reader has yielded so far
ValidRowsRead == Cardinality({i \in 1..(next_row - 1) : ValidRow(i)})

C7_ReportState ==
  (v_pc = "done" /\ OrganHeader \in fieldnames) =>
    \A n \in {strip(csv[i].organ) : i \in 1..Len(csv)} \ {<<>>} :
      LET d == path_join(BASE_DIR, check_sanitize_filename(n))
          listed == \E i \in 1..Len(missing_directories) : missing_directories[i] = n
          absent == SelectSeq(EXPECTED_FILES,
                      LAMBDA f : NormPath(path_join(d, f)) \notin dirs \cup DOMAIN files)
      IN IF NormPath(d) \notin dirs
         THEN listed /\ n \notin DOMAIN missing_files_report
         ELSE /\ ~listed
              /\ IF absent = <<>>
                 THEN n \notin DOMAIN missing_files_report
                 ELSE /\ n \in DOMAIN missing_files_report
                      /\ missing_files_report[n] = absent

\* C7: every distinct non-empty trimmed name is listed under missing
\* directories, with no missing files, when its directory is not a directory;
\* otherwise it has exactly the absent expected files, in the order of the
\* expected list, and no entry when none is absent; the run changes nothing
\* in the filesystem.
C7_Verifier == [](C7_ReportState) /\ [][dirs' = dirs /\ files' = files]_vars

\* a run that reported a missing directory and, for an organization whose
\* directory holds only the first expected file, the second one as missing
C7_Witness ==
  /\ v_pc = "done"
  /\ missing_directories = << <<"B">> >>
  /\ DOMAIN missing_files_report = { <<"A">> }
  /\ missing_files_report[<<"A">>] = << EXPECTED_FILES[2] >>

\* C8: a row whose sanitized organization name is empty is never downloaded,
\* and no file lies directly in the output directory.
C8_EmptyNameInvalid ==
  /\ \A r \in Rows, l \in LayerIdx :
       (r <= Len(csv) /\ sanitize_filename(strip(csv[r].organ)) = <<>>) =>
         calls[r][l] = 0
  /\ \A f \in DOMAIN files : ParentDir(f) # OUTPUT_DIR

\* C9: each sanitizer's result holds none of the nine characters, the two
\* sanitizers agree, and sanitizing a result returns it unchanged.
C9_Sanitizers ==
  /\ dl_done => \A i \in 1..Len(dl_out) : dl_out[i] \notin InvalidChars
  /\ ck_done => \A i \in 1..Len(ck_out) : ck_out[i] \notin InvalidChars
  /\ (dl_done /\ ck_done) => dl_out = ck_out
  /\ (san_round = 1 /\ dl_done) => dl_out = san_arg
  /\ (san_round = 1 /\ ck_done) => ck_out = san_arg

\* both sanitizers have been applied twice to a string that loses an invalid
\* character and the blank it leaves at the front
C9_Witness ==
  /\ san_round = 1 /\ dl_done /\ ck_done
  /\ san_orig = <<":", " ", "a">>
  /\ dl_out = <<"a">>

\* C10: no two downloads of a run create or write the same file, and no two
\* running downloads have the same file open for writing.
C10_NoSharedFile ==
  /\ \A a \in wrote, b \in wrote :
       a # b => TargetFile(a[1], a[2]) # TargetFile(b[1], b[2])
  /\ \A r1 \in running, r2 \in running :
       (r1 # r2 /\ dpc[r1] = "write" /\ dpc[r2] = "write") =>
         TargetFile(r1, layer_idx[r1]) # TargetFile(r2, layer_idx[r2])

=============================================================================
